---- MODULE Spec2Model ----
(***************************************************************************)
(* Model of the Minecraft-structure -> LEGO pick-and-place G-code          *)
(* converters nbt_to_gcode.py (2-D wall, RED/YELLOW dispensers),           *)
(* gcode_3d.py (3-D structure, single RED dispenser) and trial_run.py      *)
(* (nbt_to_gcode with overridden feed rates).                              *)
(*                                                                         *)
(* Lengths are integers in tenths of a millimetre (every configured length *)
(* is a multiple of 0.1 mm); a printed coordinate "{:.3f}" is the integer  *)
(* number of thousandths of a millimetre, see Fmt3.  A script line is a    *)
(* record: cmd is the command word, the other fields are the printed       *)
(* fields; an optional field is the empty set when absent and a singleton  *)
(* when present.  Trailing "; ..." annotations of command lines and blank  *)
(* lines are not modelled.                                                 *)
(***************************************************************************)
EXTENDS Integers, Sequences, FiniteSets, TLC

VARIABLES variant,      \* which converter runs: "nbt" or "g3d"
          trial,        \* TRUE when started through trial_run.py
          depth_slice,  \* MC_DEPTH_SLICE
          pc,           \* position of main
          raw_blocks,   \* parse_structure: the decoded block list
          blocks,       \* the unit list built and returned by parse_structure
          unmapped,     \* parse_structure: the unmapped type identifiers
          notes,        \* the unmapped-type reports printed so far
          lines,        \* the script returned by generate_gcode
          out_file,     \* content of the output file, <<>> while not written
          args,         \* arguments of a single call of move, of the final
                        \* raise or of the placement steps (SpecCall)
          result        \* what that call returned, <<>> before it returns

vars == <<variant, trial, depth_slice, pc, raw_blocks, blocks, unmapped,
          notes, lines, out_file, args, result>>

\* ------------------------------------------------------------------ bounds
MaxCol   == 1      \* voxel X indices are 0..MaxCol
MaxRow   == 1      \* voxel Y indices are 0..MaxRow
MaxDepth == 1      \* voxel Z indices are 0..MaxDepth
MaxLen   == 3      \* length of the decoded block list
MaxTime  == 2      \* clock readings are 1..MaxTime
MaxCallRow == 8    \* row indices of a single placement call are 0..MaxCallRow

\* ----------------------------------------------------------- configuration
Variants == {"nbt", "g3d"}

MC_COL_AXIS   == 0
MC_ROW_AXIS   == 1
MC_DEPTH_AXIS == 2

\* MC_DEPTH_SLICE is "int or None": {0} is the shipped value, {} is None.
DepthSlices == {{0}, {}}

AIR_BLOCKS == {"minecraft:air", "minecraft:cave_air", "minecraft:void_air"}

DEFAULT_LEGO_COLOR == "RED"

\* an entry of the table names a colour that has no dispenser
BLOCK_COLOR_MAP_NoStation ==
  [n \in {"minecraft:red_wool", "minecraft:yellow_wool"} |->
     IF n = "minecraft:red_wool" THEN "RED" ELSE "BLUE"]

\* Two representative entries of the table, one per colour.
BLOCK_COLOR_MAP ==
  [n \in {"minecraft:red_wool", "minecraft:yellow_wool"} |->
     IF n = "minecraft:red_wool" THEN "RED" ELSE "YELLOW"]

\* Type identifiers of the decoded palette: one empty type, one type per
\* colour of the table and one type the table does not list.
Names == {"minecraft:air", "minecraft:red_wool", "minecraft:yellow_wool",
          "minecraft:stone"}

DISPENSERS ==
  [c \in {"RED", "YELLOW"} |->
     IF c = "RED" THEN [x |-> 390, y |-> 30, z |-> -2]
                  ELSE [x |-> 150, y |-> 30, z |-> -2]]

DISPENSER == [x |-> 240, y |-> 0, z |-> 34]

DISPENSER_DWELL == 500

SETTLE_DWELL == 200

WALL_X == 790

WALL_ORIGIN_X == 640

WALL_ORIGIN_Y == 320

WALL_ORIGIN_Z(v) == IF v = "nbt" THEN -50 ELSE 0

NOZZLE_TO_BRICK_BOTTOM == 200

PUSH_EXTRA == 15

BRICK_WIDTH == 80

BRICK_DEPTH == 160

BRICK_HEIGHT == 96

SAFE_Z(v) == IF v = "nbt" THEN 800 ELSE 700

APPROACH_CLEARANCE == 60

FEED_TRAVEL(v, t) == IF v = "g3d" THEN 20000 ELSE IF t THEN 500 ELSE 9000

FEED_CARRY(v, t) == IF v = "g3d" THEN 12000 ELSE IF t THEN 300 ELSE 4000

FEED_APPROACH(v, t) == IF v = "g3d" THEN 4000 ELSE IF t THEN 100 ELSE 1500

FEED_PUSH(v, t) == IF v = "g3d" THEN 500 ELSE IF t THEN 30 ELSE 300

FEED_FINAL == 720

MACHINE_MAX_Z == 2100

FINAL_RAISE == 100

\* ------------------------------------------------------------------ input
Positions == (0..MaxCol) \X (0..MaxRow) \X (0..MaxDepth)

Cells == [pos : Positions, name : Names]

IsBlockList(raw) ==
  /\ DOMAIN raw = 1..Len(raw)
  /\ Len(raw) <= MaxLen
  /\ \A i \in 1..Len(raw) : raw[i] \in Cells

\* size vector of the structure: the bounding box of the positions
num_cols == MaxCol + 1

num_rows == MaxRow + 1

\* ---------------------------------------------------------------- parsing
EmptySeen == [k \in {} |-> "RED"]

\* the membership test answers "not seen" for every key
NotSeenNbt_Always(key, seen) == TRUE

NotSeenNbt(key, seen) == key \notin DOMAIN seen

NotSeen3d(key, seen) == key \notin seen

\* a later cell at a key already seen overwrites the stored unit
AddUnitNbt_LastWins(blks, seen, col, row, color) ==
  IF <<col, row>> \notin DOMAIN seen
  THEN Append(blks, <<col, row, color>>)
  ELSE [k \in 1..Len(blks) |->
          IF blks[k][1] = col /\ blks[k][2] = row
          THEN <<col, row, color>> ELSE blks[k]]

\* "if (col, row) not in seen: ... blocks.append((col, row, color))"
AddUnitNbt(blks, seen, col, row, color) ==
  IF NotSeenNbt(<<col, row>>, seen)
  THEN Append(blks, <<col, row, color>>) ELSE blks

\* the depth filter is not applied
OutOfSlice_Never(slice, depth_val) == FALSE

\* if MC_DEPTH_SLICE is not None and depth_val != MC_DEPTH_SLICE: continue
OutOfSlice(slice, depth_val) == slice # {} /\ depth_val \notin slice

\* an unmapped type falls back to the other category
LookupColor_OtherDefault(name) ==
  IF name \in DOMAIN BLOCK_COLOR_MAP THEN BLOCK_COLOR_MAP[name] ELSE "YELLOW"

\* color = BLOCK_COLOR_MAP.get(name, DEFAULT_LEGO_COLOR)
LookupColor(name) ==
  IF name \in DOMAIN BLOCK_COLOR_MAP THEN BLOCK_COLOR_MAP[name]
  ELSE DEFAULT_LEGO_COLOR

RECURSIVE ParseLoopNbt(_, _, _, _, _, _)
ParseLoopNbt(raw, i, slice, seen, blks, unm) ==
  IF i > Len(raw) THEN [blocks |-> blks, unmapped |-> unm]
  ELSE
    LET blk       == raw[i]
        pos       == blk.pos
        name      == blk.name
        depth_val == pos[MC_DEPTH_AXIS + 1]
        col       == pos[MC_COL_AXIS + 1]
        row       == pos[MC_ROW_AXIS + 1]
        unm2      == IF name \notin DOMAIN BLOCK_COLOR_MAP
                     THEN unm \cup {name} ELSE unm
        color     == LookupColor(name)
        seen2     == IF NotSeenNbt(<<col, row>>, seen)
                     THEN (<<col, row>> :> color) @@ seen ELSE seen
    IN  IF name \in AIR_BLOCKS
        THEN ParseLoopNbt(raw, i + 1, slice, seen, blks, unm)
        ELSE IF OutOfSlice(slice, depth_val)
        THEN ParseLoopNbt(raw, i + 1, slice, seen, blks, unm)
        ELSE ParseLoopNbt(raw, i + 1, slice, seen2,
                          AddUnitNbt(blks, seen, col, row, color), unm2)

RECURSIVE ParseLoop3d(_, _, _, _)
ParseLoop3d(raw, i, seen, blks) ==
  IF i > Len(raw) THEN [blocks |-> blks, unmapped |-> {}]
  ELSE
    LET blk   == raw[i]
        pos   == blk.pos
        name  == blk.name
        col_x == pos[1]
        row   == pos[2]
        col_y == pos[3]
        key   == <<col_x, col_y, row>>
    IN  IF name \in AIR_BLOCKS
        THEN ParseLoop3d(raw, i + 1, seen, blks)
        ELSE IF NotSeen3d(key, seen)
        THEN ParseLoop3d(raw, i + 1, seen \cup {key}, Append(blks, key))
        ELSE ParseLoop3d(raw, i + 1, seen, blks)

parse_structure(v, raw, slice) ==
  IF v = "nbt" THEN ParseLoopNbt(raw, 1, slice, EmptySeen, <<>>, {})
               ELSE ParseLoop3d(raw, 1, {}, <<>>)

\* ------------------------------------------------------- coordinate math
brick_y(col) == WALL_ORIGIN_Y + col * BRICK_WIDTH

brick_x(col_x) == WALL_ORIGIN_X + col_x * BRICK_DEPTH

placement_nozzle_z_nbt(row) ==
  LET brick_top_target == WALL_ORIGIN_Z("nbt") - row * BRICK_HEIGHT
  IN  brick_top_target - NOZZLE_TO_BRICK_BOTTOM - PUSH_EXTRA

placement_nozzle_z_3d(row) == WALL_ORIGIN_Z("g3d") + row * BRICK_HEIGHT

placement_nozzle_z(v, row) ==
  IF v = "nbt" THEN placement_nozzle_z_nbt(row) ELSE placement_nozzle_z_3d(row)

\* the clearance is taken off the placement height
approach_nozzle_z_Below(v, row) ==
  placement_nozzle_z(v, row) - APPROACH_CLEARANCE

approach_nozzle_z(v, row) == placement_nozzle_z(v, row) + APPROACH_CLEARANCE

\* ------------------------------------------------------------ script lines
\* "{:.3f}" of a length held in tenths of a millimetre: thousandths.
Fmt3(a) == a * 100

\* "{:.4f}" of the payload marker held in hundredths: ten-thousandths.
Fmt4(a) == a * 100

E_MARK == 5

Line(c, x, y, z, e, f, p) ==
  [cmd |-> c, x |-> x, y |-> y, z |-> z, e |-> e, f |-> f, p |-> p]

Word(c) == Line(c, {}, {}, {}, {}, {}, {})

WordP(c, p) == Line(c, {}, {}, {}, {}, {}, {p})

\* a move at exactly the approach feed counts as slow
IsSlow_AtOrBelow(v, t, e, feed) ==
  e # {} \/ (feed # {} /\ \A fd \in feed : fd <= FEED_APPROACH(v, t))

IsSlow(v, t, e, feed) ==
  e # {} \/ (feed # {} /\ \A fd \in feed : fd < FEED_APPROACH(v, t))

move(v, t, x, y, z, e, feed) ==
  Line(IF IsSlow(v, t, e, feed) THEN "G1" ELSE "G0",
       {Fmt3(a) : a \in x}, {Fmt3(a) : a \in y}, {Fmt3(a) : a \in z},
       {Fmt4(a) : a \in e}, feed, {})

\* the word of an optional field: its letter when the field is given
Opt(letter, field) == IF field # {} THEN <<letter>> ELSE <<>>

\* move: the list "parts" by the leading letters of its words, in the order
\* they are appended
move_parts(v, t, x, y, z, e, feed, comment) ==
  << (IF IsSlow(v, t, e, feed) THEN "G1" ELSE "G0") >>
  \o Opt("X", x) \o Opt("Y", y) \o Opt("Z", z) \o Opt("E", e)
  \o Opt("F", feed) \o Opt(";", comment)

\* round(n / d) for n >= 0, d > 0: round() rounds a tie to the even integer.
\* (For d >= 40 the float quotient of a tie can fall just beside the half and
\* round() then returns the other of the two nearest integers.)
RoundDiv(n, d) ==
  LET q == n \div d
      r == n % d
  IN  IF 2 * r < d THEN q
      ELSE IF 2 * r > d THEN q + 1
      ELSE IF q % 2 = 0 THEN q ELSE q + 1

\* progress counts the units still to place
Pct_Remaining(idx, total) == RoundDiv((total - idx) * 100, total)

\* the quotient is truncated, not rounded
Pct_Truncated(idx, total) == (idx * 100) \div total

\* pct = int(round(idx / total * 100))
Pct(idx, total) == RoundDiv(idx * 100, total)

\* --------------------------------------------------------------- ordering
Row(v, b) == IF v = "nbt" THEN b[2] ELSE b[3]

\* key=lambda b: (b[1], -b[0]), padded to three components
SortKeyNbt(b) == <<b[2], 0, -b[1]>>

\* key=lambda b: (b[2], b[1], b[0])
SortKey3d(b) == <<b[3], b[2], b[1]>>

SortKey(v, b) == IF v = "nbt" THEN SortKeyNbt(b) ELSE SortKey3d(b)

\* tuple comparison k1 <= k2 of two keys of three integers
KeyLeq(k1, k2) ==
  \/ k1[1] < k2[1]
  \/ k1[1] = k2[1] /\ k1[2] < k2[2]
  \/ k1[1] = k2[1] /\ k1[2] = k2[2] /\ k1[3] <= k2[3]

\* stable insertion: b goes after every element whose key is <= its key
RECURSIVE InsertSorted(_, _, _)
InsertSorted(v, s, b) ==
  IF s = <<>> THEN <<b>>
  ELSE IF KeyLeq(SortKey(v, s[Len(s)]), SortKey(v, b)) THEN Append(s, b)
  ELSE Append(InsertSorted(v, SubSeq(s, 1, Len(s) - 1), b), s[Len(s)])

RECURSIVE SortFrom(_, _, _, _)
SortFrom(v, blks, i, acc) ==
  IF i > Len(blks) THEN acc
  ELSE SortFrom(v, blks, i + 1, InsertSorted(v, acc, blks[i]))

\* the list is emitted in input order
sorted_blocks_Unsorted(v, blks) == blks

sorted_blocks(v, blks) == SortFrom(v, blks, 1, <<>>)

\* ------------------------------------------------------------- generation
\* a second header line carries the time of the run
Header_TwoStamps(v, blks, timestamp) ==
  << WordP("; generated", timestamp),
     WordP("; layer_count", num_rows),
     WordP("; Bricks", Len(blks)),
     WordP("; estimated printing time", timestamp) >>

Header(v, blks, timestamp) ==
  << WordP("; generated", timestamp),
     WordP("; layer_count", num_rows),
     WordP("; Bricks", Len(blks)) >>

Setup(v, t) ==
  << WordP("M73", 0), Word("M201"), Word("M203"), Word("M204"), Word("M205"),
     Word("G21"), Word("G90"), Word("G28") >>
  \o (IF v = "nbt"
      THEN << Line("G92", {}, {}, {0}, {}, {}, {}) >>
      ELSE << Line("G92", {-11000}, {-7000}, {}, {}, {}, {}),
              Line("G92", {}, {}, {3800}, {}, {}, {}) >>)
  \o << WordP("M211", 0), Word("M83"),
        Line("G92", {}, {}, {}, {0}, {}, {}),
        move(v, t, {}, {}, {SAFE_Z(v)}, {}, {FEED_TRAVEL(v, t)}) >>

LayerMarker(v, row) ==
  << Word(";LAYER_CHANGE"),
     Line(";Z:", {}, {},
          {Fmt3(IF v = "nbt" THEN WALL_ORIGIN_Z(v) - row * BRICK_HEIGHT
                             ELSE placement_nozzle_z(v, row))}, {}, {}, {}),
     Line(";HEIGHT:", {}, {}, {Fmt3(BRICK_HEIGHT)}, {}, {}, {}),
     WordP("; --- Layer", row + 1) >>

\* every unit is fetched from the RED dispenser
Station_AlwaysRed(v, b) ==
  IF v = "nbt" THEN DISPENSERS[DEFAULT_LEGO_COLOR] ELSE DISPENSER

Station(v, b) == IF v = "nbt" THEN DISPENSERS[b[3]] ELSE DISPENSER

TargetX(v, b) == IF v = "nbt" THEN WALL_X ELSE brick_x(b[1])

TargetY(v, b) == IF v = "nbt" THEN brick_y(b[1]) ELSE brick_y(b[2])

Progress(idx, total) == << WordP("M73", Pct(idx, total)) >>

\* the rise to the safe height after the pick dwell is missing
PickUp_NoRise(v, t, b) ==
  LET disp == Station(v, b)
  IN  << move(v, t, {disp.x}, {disp.y}, {}, {}, {FEED_TRAVEL(v, t)}),
         move(v, t, {}, {}, {disp.z}, {}, {FEED_APPROACH(v, t)}),
         WordP("G4", DISPENSER_DWELL) >>

\* 1. pick up from the dispenser
PickUp(v, t, b) ==
  LET disp == Station(v, b)
  IN  << move(v, t, {disp.x}, {disp.y}, {}, {}, {FEED_TRAVEL(v, t)}),
         move(v, t, {}, {}, {disp.z}, {}, {FEED_APPROACH(v, t)}),
         WordP("G4", DISPENSER_DWELL),
         move(v, t, {}, {}, {SAFE_Z(v)}, {}, {FEED_CARRY(v, t)}) >>

\* 2. travel to target XY
TravelTo(v, t, b) ==
  << move(v, t, {TargetX(v, b)}, {TargetY(v, b)}, {}, {E_MARK},
          {FEED_CARRY(v, t)}),
     Line("G92", {}, {}, {}, {0}, {}, {}) >>

\* the push is made at the approach feed
Place_PushAtApproachFeed(v, t, b) ==
  LET row     == Row(v, b)
      place_z == placement_nozzle_z(v, row)
      appr_z  == approach_nozzle_z(v, row)
  IN  << move(v, t, {}, {}, {appr_z}, {}, {FEED_APPROACH(v, t)}),
         move(v, t, {}, {}, {place_z}, {}, {FEED_APPROACH(v, t)}),
         WordP("G4", SETTLE_DWELL),
         move(v, t, {}, {}, {SAFE_Z(v)}, {}, {FEED_TRAVEL(v, t)}) >>

\* the settle dwell after the push is missing
Place_NoSettle(v, t, b) ==
  LET row     == Row(v, b)
      place_z == placement_nozzle_z(v, row)
      appr_z  == approach_nozzle_z(v, row)
  IN  << move(v, t, {}, {}, {appr_z}, {}, {FEED_APPROACH(v, t)}),
         move(v, t, {}, {}, {place_z}, {}, {FEED_PUSH(v, t)}),
         move(v, t, {}, {}, {SAFE_Z(v)}, {}, {FEED_TRAVEL(v, t)}) >>

\* 3. approach, 4. push onto studs, 5. retract
Place(v, t, b) ==
  LET row     == Row(v, b)
      place_z == placement_nozzle_z(v, row)
      appr_z  == approach_nozzle_z(v, row)
  IN  << move(v, t, {}, {}, {appr_z}, {}, {FEED_APPROACH(v, t)}),
         move(v, t, {}, {}, {place_z}, {}, {FEED_PUSH(v, t)}),
         WordP("G4", SETTLE_DWELL),
         move(v, t, {}, {}, {SAFE_Z(v)}, {}, {FEED_TRAVEL(v, t)}) >>

UnitBlock(v, t, idx, total, b) ==
  Progress(idx, total) \o PickUp(v, t, b) \o TravelTo(v, t, b)
  \o Place(v, t, b)

\* a marker is emitted for every unit
NewLayer_Always(row, current_row) == TRUE

NewLayer(row, current_row) == row # current_row

RECURSIVE UnitLoop(_, _, _, _, _)
UnitLoop(v, t, srt, idx, current_row) ==
  IF idx >= Len(srt) THEN <<>>
  ELSE LET b   == srt[idx + 1]
           row == Row(v, b)
       IN  (IF NewLayer(row, current_row) THEN LayerMarker(v, row) ELSE <<>>)
           \o UnitBlock(v, t, idx, Len(srt), b)
           \o UnitLoop(v, t, srt, idx + 1, row)

Min(a, b) == IF a <= b THEN a ELSE b

\* the raise is not clamped to the height of the machine
FinalZ_Unclamped(safe_z) == safe_z + FINAL_RAISE

\* final_z = min(SAFE_Z + 10.0, 210.0)
FinalZ(safe_z) == Min(safe_z + FINAL_RAISE, MACHINE_MAX_Z)

final_z(v) == FinalZ(SAFE_Z(v))

\* the soft endstops are switched back on ahead of the final raise
Teardown_EndstopsFirst(v, t) ==
  << WordP("M73", 100), WordP("M211", 1),
     move(v, t, {}, {}, {final_z(v)}, {}, {FEED_FINAL}),
     Word("M84") >>
  \o (IF v = "nbt"
      THEN << Word("; prusaslicer_config = begin"),
              Word("; prusaslicer_config = end") >>
      ELSE <<>>)

Teardown(v, t) ==
  << WordP("M73", 100),
     move(v, t, {}, {}, {final_z(v)}, {}, {FEED_FINAL}),
     WordP("M211", 1), Word("M84") >>
  \o (IF v = "nbt"
      THEN << Word("; prusaslicer_config = begin"),
              Word("; prusaslicer_config = end") >>
      ELSE <<>>)

\* the unit blocks are emitted ahead of the setup block
generate_gcode_SetupLate(v, t, blks, timestamp) ==
  Header(v, blks, timestamp)
  \o UnitLoop(v, t, sorted_blocks(v, blks), 0, -1)
  \o Setup(v, t) \o Teardown(v, t)

generate_gcode(v, t, blks, timestamp) ==
  Header(v, blks, timestamp) \o Setup(v, t)
  \o UnitLoop(v, t, sorted_blocks(v, blks), 0, -1)
  \o Teardown(v, t)

\* ----------------------------------------------------------------- state
TypeOK ==
  /\ variant \in Variants
  /\ trial \in BOOLEAN
  /\ depth_slice \in DepthSlices
  /\ pc \in {"start", "parse_loop_done", "parsed", "exit", "generated",
             "written"}
  /\ IsBlockList(raw_blocks)
  /\ unmapped \subseteq Names
  /\ Len(notes) <= 1

NoArgs ==
  [x |-> {}, y |-> {}, z |-> {}, e |-> {}, feed |-> {}, comment |-> {},
   safe_z |-> 0, row |-> 0]

InitCommon ==
  /\ pc = "start"
  /\ args = NoArgs
  /\ result = <<>>
  /\ raw_blocks = <<>>
  /\ blocks = <<>>
  /\ unmapped = {}
  /\ notes = <<>>
  /\ lines = <<>>
  /\ out_file = <<>>

\* python nbt_to_gcode.py / python gcode_3d.py
Init ==
  /\ variant \in Variants
  /\ trial = FALSE
  /\ depth_slice \in (IF variant = "nbt" THEN DepthSlices ELSE {{}})
  /\ InitCommon

\* python nbt_to_gcode.py or python trial_run.py, shipped configuration
InitTrial ==
  /\ variant = "nbt"
  /\ trial \in BOOLEAN
  /\ depth_slice = {0}
  /\ InitCommon

\* parse_structure up to the end of its loop over the block list
ParseStructure ==
  /\ pc = "start"
  /\ \E n \in 0..MaxLen : \E raw \in [1..n -> Cells] :
       LET r == parse_structure(variant, raw, depth_slice)
       IN  /\ raw_blocks' = raw
           /\ blocks' = r.blocks
           /\ unmapped' = r.unmapped
  /\ pc' = "parse_loop_done"
  /\ UNCHANGED <<args, result, variant, trial, depth_slice, notes, lines, out_file>>

\* parse_structure: the unmapped report and the return
ParseReturn ==
  /\ pc = "parse_loop_done"
  /\ notes' = IF unmapped # {} THEN Append(notes, unmapped) ELSE notes
  /\ raw_blocks' = <<>>
  /\ unmapped' = {}
  /\ pc' = "parsed"
  /\ UNCHANGED <<args, result, variant, trial, depth_slice, blocks, lines, out_file>>

\* main: "if not blocks: sys.exit(...)"
ExitEmpty ==
  /\ pc = "parsed"
  /\ blocks = <<>>
  /\ pc' = "exit"
  /\ UNCHANGED <<args, result, variant, trial, depth_slice, raw_blocks, blocks, unmapped,
                 notes, lines, out_file>>

GenerateGcode ==
  /\ pc = "parsed"
  /\ blocks # <<>>
  /\ \E timestamp \in 1..MaxTime :
       lines' = generate_gcode(variant, trial, blocks, timestamp)
  /\ pc' = "generated"
  /\ UNCHANGED <<args, result, variant, trial, depth_slice, raw_blocks, blocks, unmapped,
                 notes, out_file>>

\* the file is opened and its header written as soon as parsing is done
WriteFile_Early ==
  /\ pc = "parsed"
  /\ out_file' = Header(variant, blocks, 1)
  /\ pc' = "written"
  /\ UNCHANGED <<args, result, variant, trial, depth_slice, raw_blocks, blocks, unmapped,
                 notes, lines>>

\* main: with open(out_path, "w") as f: f.write(gcode)
WriteFile ==
  /\ pc = "generated"
  /\ out_file' = lines
  /\ pc' = "written"
  /\ UNCHANGED <<args, result, variant, trial, depth_slice, raw_blocks, blocks, unmapped,
                 notes, lines>>

Next ==
  \/ ParseStructure
  \/ ParseReturn
  \/ ExitEmpty
  \/ GenerateGcode
  \/ WriteFile

Spec == Init /\ [][Next]_vars

SpecTrial == InitTrial /\ [][Next]_vars

\* --------------------------------------------------------- single calls
\* feeds around the approach feed in force, none, zero and the final feed
CallFeeds(v, t) ==
  {{}, {0}, {FEED_PUSH(v, t)}, {FEED_APPROACH(v, t) - 1},
   {FEED_APPROACH(v, t)}, {FEED_APPROACH(v, t) + 1}, {FEED_FINAL}}

MoveArgs(v, t) ==
  {[NoArgs EXCEPT !.x = x, !.y = y, !.z = z, !.e = e, !.feed = f,
                  !.comment = c] :
     x \in {{}, {WALL_X}}, y \in {{}, {WALL_ORIGIN_Y}},
     z \in {{}, {SAFE_Z(v)}}, e \in {{}, {E_MARK}},
     f \in CallFeeds(v, t), c \in {{}, {"c"}}}

\* values of SAFE_Z up to and beyond the height of the machine
SafeZs == {0, 700, 800, 1990, 2000, 2010, 2050, 2100, 2110, 2500}

FinalArgs == {[NoArgs EXCEPT !.safe_z = sz] : sz \in SafeZs}

PlaceArgs == {[NoArgs EXCEPT !.row = r] : r \in 0..MaxCallRow}

\* one call of move(), of the final raise or of the placement steps of a
\* unit, under either program and under the trial feeds
InitCall ==
  /\ variant \in Variants
  /\ trial \in (IF variant = "nbt" THEN BOOLEAN ELSE {FALSE})
  /\ depth_slice = {}
  /\ pc \in {"call_move", "call_final_z", "call_place"}
  /\ args \in (IF pc = "call_move" THEN MoveArgs(variant, trial)
               ELSE IF pc = "call_final_z" THEN FinalArgs ELSE PlaceArgs)
  /\ result = <<>>
  /\ raw_blocks = <<>>
  /\ blocks = <<>>
  /\ unmapped = {}
  /\ notes = <<>>
  /\ lines = <<>>
  /\ out_file = <<>>

\* move(x, y, z, e, feed, comment): the words appended and the line
CallMove ==
  /\ pc = "call_move"
  /\ result' = [parts |-> move_parts(variant, trial, args.x, args.y, args.z,
                                      args.e, args.feed, args.comment),
                line  |-> move(variant, trial, args.x, args.y, args.z,
                               args.e, args.feed)]
  /\ pc' = "move_returned"
  /\ UNCHANGED <<args, variant, trial, depth_slice, raw_blocks, blocks,
                 unmapped, notes, lines, out_file>>

\* final_z = min(SAFE_Z + 10.0, 210.0); move(z=final_z, feed=720)
CallFinalZ ==
  /\ pc = "call_final_z"
  /\ result' = [final_z |-> FinalZ(args.safe_z),
                line    |-> move(variant, trial, {}, {},
                                 {FinalZ(args.safe_z)}, {},
                                 {FEED_FINAL})]
  /\ pc' = "final_z_returned"
  /\ UNCHANGED <<args, variant, trial, depth_slice, raw_blocks, blocks,
                 unmapped, notes, lines, out_file>>

\* steps 3 to 5 of the loop body for a unit of row args.row
CallPlace ==
  /\ pc = "call_place"
  /\ result' = Place(variant, trial,
                     IF variant = "nbt"
                     THEN <<0, args.row, DEFAULT_LEGO_COLOR>>
                     ELSE <<0, 0, args.row>>)
  /\ pc' = "place_returned"
  /\ UNCHANGED <<args, variant, trial, depth_slice, raw_blocks, blocks,
                 unmapped, notes, lines, out_file>>

NextCall ==
  \/ CallMove
  \/ CallFinalZ
  \/ CallPlace

SpecCall == InitCall /\ [][NextCall]_vars
\* ================================================================ claims
\* position key of a unit of the returned list
UnitKey(v, b) == IF v = "nbt" THEN <<b[1], b[2]>> ELSE b

\* position key an input cell maps to
CellKey(v, c) ==
  IF v = "nbt" THEN <<c.pos[1], c.pos[2]>>
               ELSE <<c.pos[1], c.pos[3], c.pos[2]>>

\* the cell is not empty and lies in the configured depth slice
Survives(v, slice, c) ==
  /\ c.name \notin AIR_BLOCKS
  /\ v = "nbt" /\ slice # {} => c.pos[3] \in slice

Generated == pc \in {"generated", "written"}

\* C1: the unit list built by parse_structure never holds two units with the
\* same position key ((col, row) in nbt_to_gcode, (col_x, col_y, row) in
\* gcode_3d), whatever the block list repeats.
C1_OneUnitPerKey ==
  \A i, j \in 1..Len(blocks) :
    i # j => UnitKey(variant, blocks[i]) # UnitKey(variant, blocks[j])

\* C1 witness: merge-all-depths run whose block list holds two non-empty
\* cells with the same column and row at different depths, parsed to one unit.
C1_Witness ==
  /\ pc = "parse_loop_done"
  /\ variant = "nbt"
  /\ depth_slice = {}
  /\ Len(blocks) = 1
  /\ \E i, j \in 1..Len(raw_blocks) :
       /\ i < j
       /\ Survives(variant, depth_slice, raw_blocks[i])
       /\ Survives(variant, depth_slice, raw_blocks[j])
       /\ CellKey(variant, raw_blocks[i]) = CellKey(variant, raw_blocks[j])
       /\ raw_blocks[i].pos[3] # raw_blocks[j].pos[3]

\* colour the table (or the default) gives a type identifier
ColorOf(name) ==
  IF name \in DOMAIN BLOCK_COLOR_MAP THEN BLOCK_COLOR_MAP[name]
  ELSE DEFAULT_LEGO_COLOR

\* indices of the non-empty cells of the block list that map to key
CellsAt(key) ==
  {i \in 1..Len(raw_blocks) :
     /\ Survives(variant, depth_slice, raw_blocks[i])
     /\ CellKey(variant, raw_blocks[i]) = key}

SetMin(S) == CHOOSE m \in S : \A n \in S : m <= n

SetMax(S) == CHOOSE m \in S : \A n \in S : n <= m

\* C2: in nbt_to_gcode with MC_DEPTH_SLICE = None, every key that some
\* non-empty cell maps to has exactly one unit, and that unit carries the
\* category of the first such cell in block-list order.
C2_FirstCellWins ==
  (pc = "parse_loop_done" /\ variant = "nbt" /\ depth_slice = {}) =>
    \A i \in 1..Len(raw_blocks) :
      Survives(variant, depth_slice, raw_blocks[i]) =>
        LET key   == CellKey(variant, raw_blocks[i])
            first == SetMin(CellsAt(key))
            units == {k \in 1..Len(blocks) : UnitKey(variant, blocks[k]) = key}
        IN  /\ Cardinality(units) = 1
            /\ \A k \in units :
                 blocks[k][3] = ColorOf(raw_blocks[first].name)

\* C2 witness: two non-empty cells at one (col, row), the first YELLOW and a
\* later one RED, and the unit of that key is YELLOW.
C2_Witness ==
  /\ pc = "parse_loop_done"
  /\ variant = "nbt"
  /\ depth_slice = {}
  /\ \E i, j \in 1..Len(raw_blocks) :
       /\ i < j
       /\ Survives(variant, depth_slice, raw_blocks[i])
       /\ Survives(variant, depth_slice, raw_blocks[j])
       /\ i = SetMin(CellsAt(CellKey(variant, raw_blocks[i])))
       /\ CellKey(variant, raw_blocks[i]) = CellKey(variant, raw_blocks[j])
       /\ ColorOf(raw_blocks[i].name) = "YELLOW"
       /\ ColorOf(raw_blocks[j].name) = "RED"
       /\ \E k \in 1..Len(blocks) :
            /\ UnitKey(variant, blocks[k]) = CellKey(variant, raw_blocks[i])
            /\ blocks[k][3] = "YELLOW"
\* ------------------------------------------------ reading the script back
Units == {blocks[k] : k \in 1..Len(blocks)}

Col(v, b) == b[1]

Depth(v, b) == IF v = "nbt" THEN 0 ELSE b[2]

IsMove(l) == l.cmd \in {"G0", "G1"}

\* a move of Z alone
IsZMove(l) == IsMove(l) /\ l.z # {} /\ l.x = {} /\ l.y = {}

\* a move of X and Y at constant Z
IsXYMove(l) == IsMove(l) /\ l.x # {} /\ l.y # {} /\ l.z = {}

\* the travel to a station: an X/Y move without payload marker
IsStationTravel(l) == IsXYMove(l) /\ l.e = {}

\* the travel to a placement position: an X/Y move with payload marker
IsLoadedTravel(l) == IsXYMove(l) /\ l.e # {}

\* the push: the Z move at the push feed
IsPush(l) == IsZMove(l) /\ l.f = {FEED_PUSH(variant, trial)}

\* progress lines that open a unit block: followed by the station travel
StartIdx ==
  {i \in 1..Len(lines) :
     /\ lines[i].cmd = "M73"
     /\ i < Len(lines)
     /\ IsStationTravel(lines[i + 1])}

\* first progress line or layer marker after line s
NextBoundary(s) ==
  SetMin({j \in (s + 1)..Len(lines) : lines[j].cmd \in {"M73", ";LAYER_CHANGE"}})

\* the lines of the unit block opened at s
Block(s) == s..(NextBoundary(s) - 1)

\* the block opened at s carries unit b to its placement position
Places(s, b) ==
  /\ \E i \in Block(s) :
       /\ IsLoadedTravel(lines[i])
       /\ lines[i].x = {Fmt3(TargetX(variant, b))}
       /\ lines[i].y = {Fmt3(TargetY(variant, b))}
  /\ \E j \in Block(s) :
       /\ IsPush(lines[j])
       /\ lines[j].z = {Fmt3(placement_nozzle_z(variant, Row(variant, b)))}

BlocksOf(b) == {s \in StartIdx : Places(s, b)}

\* every unit has exactly one block, and block sa ends before block sb begins
Before(a, b) ==
  \A sa \in BlocksOf(a) : \A sb \in BlocksOf(b) : NextBoundary(sa) <= sb

OneBlockPerUnit ==
  /\ Cardinality(StartIdx) = Len(blocks)
  /\ \A b \in Units : Cardinality(BlocksOf(b)) = 1

\* C3: in the generated script every unit has one block, and the whole block
\* of a unit of a lower row precedes the whole block of a unit of a higher
\* row, whatever the order of the unit list.
C3_RowOrder ==
  Generated =>
    /\ OneBlockPerUnit
    /\ \A a, b \in Units :
         Row(variant, a) < Row(variant, b) => Before(a, b)

\* C3 witness: a script generated from a unit list that holds a unit of a
\* higher row ahead of a unit of a lower row.
C3_Witness ==
  /\ Generated
  /\ \E i, j \in 1..Len(blocks) :
       i < j /\ Row(variant, blocks[i]) > Row(variant, blocks[j])

\* C4 (as claimed): within one row the blocks are ordered by depth index
\* ascending and, within equal depth, by column ascending, in both programs.
C4_DepthThenColumnAscending ==
  Generated =>
    \A a, b \in Units :
      /\ Row(variant, a) = Row(variant, b)
      /\ \/ Depth(variant, a) < Depth(variant, b)
         \/ /\ Depth(variant, a) = Depth(variant, b)
            /\ Col(variant, a) < Col(variant, b)
      => Before(a, b)

Val(S) == CHOOSE a \in S : TRUE

PushIdx == {i \in 1..Len(lines) : IsPush(lines[i])}

\* C5 (as claimed): of two push moves with different Z, the one with the
\* lower Z comes first in the script, in both programs.
C5_LowerZFirst ==
  Generated =>
    \A i, j \in PushIdx :
      Val(lines[i].z) < Val(lines[j].z) => i < j

IsMotion(l) == l.cmd \in {"G0", "G1", "G4"}

Motion == SelectSeq(lines, IsMotion)

Stations == IF variant = "nbt" THEN {DISPENSERS[c] : c \in DOMAIN DISPENSERS}
                               ELSE {DISPENSER}

ZOnly(l, z) == IsZMove(l) /\ l.z = {Fmt3(z)}

\* the nine primitives of one unit, in order, at m[o + 1] .. m[o + 9]
NineSteps(m, o, b) ==
  /\ \E st \in Stations :
       /\ IsStationTravel(m[o + 1])
       /\ m[o + 1].x = {Fmt3(st.x)} /\ m[o + 1].y = {Fmt3(st.y)}
       /\ ZOnly(m[o + 2], st.z)
  /\ m[o + 3].cmd = "G4" /\ m[o + 3].p = {DISPENSER_DWELL}
  /\ ZOnly(m[o + 4], SAFE_Z(variant))
  /\ IsLoadedTravel(m[o + 5])
  /\ m[o + 5].x = {Fmt3(TargetX(variant, b))}
  /\ m[o + 5].y = {Fmt3(TargetY(variant, b))}
  /\ ZOnly(m[o + 6], placement_nozzle_z(variant, Row(variant, b))
                      + APPROACH_CLEARANCE)
  /\ ZOnly(m[o + 7], placement_nozzle_z(variant, Row(variant, b)))
  /\ m[o + 8].cmd = "G4" /\ m[o + 8].p = {SETTLE_DWELL}
  /\ ZOnly(m[o + 9], SAFE_Z(variant))

\* C6: between the setup raise and the teardown raise the motion primitives
\* of the script are exactly one group of nine per unit: station travel,
\* descend to grab height, pick dwell, rise to safe height, travel to the
\* placement X/Y, descend to approach Z, push to placement Z, settle dwell,
\* retract to safe height; nothing is skipped, repeated or interleaved.
C6_NineStepsPerUnit ==
  Generated =>
    LET m == Motion
        n == Len(blocks)
    IN  /\ Len(m) = 9 * n + 2
        /\ \A k \in 0..(n - 1) : \E b \in Units : NineSteps(m, 9 * k + 1, b)
        /\ \A b \in Units : \E k \in 0..(n - 1) : NineSteps(m, 9 * k + 1, b)

\* C6 witness: a script for two units that differ in row and in column.
C6_Witness ==
  /\ Generated
  /\ \E a, b \in Units :
       Row(variant, a) # Row(variant, b) /\ Col(variant, a) # Col(variant, b)

\* C7: in nbt_to_gcode the block of a unit holds exactly one station travel;
\* it targets X/Y of the dispenser of the unit's colour and of no other
\* dispenser, and the next line descends to that dispenser's grab height.
C7_OwnStation ==
  (Generated /\ variant = "nbt") =>
    \A b \in Units : \A s \in BlocksOf(b) :
      /\ Cardinality({i \in Block(s) : IsStationTravel(lines[i])}) = 1
      /\ \A i \in Block(s) :
           IsStationTravel(lines[i]) =>
             /\ lines[i].x = {Fmt3(DISPENSERS[b[3]].x)}
             /\ lines[i].y = {Fmt3(DISPENSERS[b[3]].y)}
             /\ \A c \in DOMAIN DISPENSERS \ {b[3]} :
                  lines[i].x # {Fmt3(DISPENSERS[c].x)}
             /\ ZOnly(lines[i + 1], DISPENSERS[b[3]].z)

\* C7 witness: an nbt_to_gcode script placing a RED and a YELLOW unit.
C7_Witness ==
  /\ Generated
  /\ variant = "nbt"
  /\ \E a, b \in Units : a[3] = "RED" /\ b[3] = "YELLOW"

Markers == {i \in 1..Len(lines) : lines[i].cmd = ";LAYER_CHANGE"}

UnitsOfBlock(s) == {b \in Units : Places(s, b)}

\* no earlier block places a unit of the row of the block opened at s
FirstOfRow(s) ==
  \A b \in UnitsOfBlock(s) : \A s2 \in StartIdx :
    s2 < s => \A b2 \in UnitsOfBlock(s2) : Row(variant, b2) # Row(variant, b)

\* C8: the script holds as many layer-change markers as the units have
\* distinct rows; a marker (four comment lines) is directly followed by the
\* progress line of the first block of a row, and every first block of a row
\* is directly preceded by one.
C8_MarkerPerRow ==
  Generated =>
    /\ Cardinality(Markers) = Cardinality({Row(variant, b) : b \in Units})
    /\ \A i \in Markers :
         /\ lines[i + 1].cmd = ";Z:"
         /\ lines[i + 2].cmd = ";HEIGHT:"
         /\ lines[i + 3].cmd = "; --- Layer"
         /\ i + 4 \in StartIdx
         /\ FirstOfRow(i + 4)
    /\ \A s \in StartIdx : FirstOfRow(s) => (s - 4) \in Markers

\* C8 witness: a script for three units in two rows.
C8_Witness ==
  /\ Generated
  /\ Len(blocks) = 3
  /\ Cardinality({Row(variant, b) : b \in Units}) = 2
  /\ Cardinality(Markers) = 2

IsProgress(l) == l.cmd = "M73"

Percents == SelectSeq(lines, IsProgress)

ProgressIdx == {i \in 1..Len(lines) : IsProgress(lines[i])}

\* C9: the progress values of the script, in order, never decrease, are
\* integers in 0..100, start at 0 and end at 100.
C9_ProgressMonotone ==
  Generated =>
    LET ps == Percents
    IN  /\ Len(ps) >= 2
        /\ ps[1].p = {0}
        /\ ps[Len(ps)].p = {100}
        /\ \A k \in 1..Len(ps) : ps[k].p \subseteq 0..100 /\ ps[k].p # {}
        /\ \A k \in 1..(Len(ps) - 1) : Val(ps[k].p) <= Val(ps[k + 1].p)

\* C9 witness: a script for three units, whose last unit reports 67.
C9_Witness ==
  /\ Generated
  /\ Len(blocks) = 3
  /\ \E i \in StartIdx : lines[i].p = {67}

CountP(ps, v) == Cardinality({k \in 1..Len(ps) : ps[k].p = {v}})

\* v is an integer nearest to idx / n * 100
Nearest(v, idx, n) ==
  LET d == IF 100 * idx >= v * n THEN 100 * idx - v * n ELSE v * n - 100 * idx
  IN  2 * d <= n

CmdIdx(c) == {i \in 1..Len(lines) : lines[i].cmd = c}

\* the line that declares the Z datum: G92 with a Z word
ZDatumIdx == {i \in CmdIdx("G92") : lines[i].z # {}}

EndstopIdx(p) == {i \in CmdIdx("M211") : lines[i].p = {p}}

MoveIdx == {i \in 1..Len(lines) : IsMove(lines[i])}

\* C11: the script homes X/Y (G28), declares the Z datum (G92 Z), disables
\* the soft endstops (M211 S0) and raises to the safe height, each once and
\* in that order, before the first move of the first unit; after the retract
\* of the last unit it raises to the final height, re-enables the endstops
\* (M211 S1) and releases the motors (M84), each once and in that order; so
\* every move of the script, those to negative Z included, lies between
\* M211 S0 and M211 S1.
C11_SetupTeardownBracket ==
  Generated =>
    LET raise   == SetMin(MoveIdx)
        final   == SetMax(MoveIdx)
        retract == SetMax(MoveIdx \ {final})
        first   == SetMin(StartIdx)
        last    == SetMax(StartIdx)
    IN  /\ Cardinality(CmdIdx("G28")) = 1
        /\ Cardinality(ZDatumIdx) = 1
        /\ Cardinality(EndstopIdx(0)) = 1
        /\ Cardinality(EndstopIdx(1)) = 1
        /\ Cardinality(CmdIdx("M211")) = 2
        /\ Cardinality(CmdIdx("M84")) = 1
        /\ Val(CmdIdx("G28")) < Val(ZDatumIdx)
        /\ Val(ZDatumIdx) < Val(EndstopIdx(0))
        /\ Val(EndstopIdx(0)) < raise
        /\ ZOnly(lines[raise], SAFE_Z(variant))
        /\ raise < first
        /\ \A i \in MoveIdx \ {raise} : first < i
        /\ retract \in Block(last)
        /\ ZOnly(lines[retract], SAFE_Z(variant))
        /\ NextBoundary(last) < final
        /\ ZOnly(lines[final], final_z(variant))
        /\ final < Val(EndstopIdx(1))
        /\ Val(EndstopIdx(1)) < Val(CmdIdx("M84"))
        /\ \A i \in MoveIdx : Val(EndstopIdx(0)) < i /\ i < Val(EndstopIdx(1))

\* C11 witness: an nbt_to_gcode script for two units with a move below the
\* Z datum after M211 S0 and before M211 S1.
C11_Witness ==
  /\ Generated
  /\ variant = "nbt"
  /\ Len(blocks) = 2
  /\ \E i \in MoveIdx :
       /\ lines[i].z # {}
       /\ Val(lines[i].z) < 0
       /\ \E a \in EndstopIdx(0) : a < i
       /\ \E b \in EndstopIdx(1) : i < b

\* a script from its header line to the teardown, one block per unit
IsCompleteScript(s) ==
  /\ s = lines
  /\ lines[1].cmd = "; generated"
  /\ Cardinality(StartIdx) = Len(blocks)
  /\ Cardinality(CmdIdx("M84")) = 1

\* C12: main ends without an output file when parsing yields no unit
\* (sys.exit before generate_gcode), generation is only entered with at least
\* one unit, and whenever the output file has content it is the complete
\* script that generate_gcode returned: nothing is written before generation
\* has finished.
C12_NoFileBeforeComplete ==
  /\ pc = "exit" => blocks = <<>> /\ lines = <<>> /\ out_file = <<>>
  /\ pc \in {"start", "parse_loop_done", "parsed", "generated"} =>
       out_file = <<>>
  /\ Generated => blocks # <<>>
  /\ pc = "written" => out_file # <<>>
  /\ out_file # <<>> => pc = "written" /\ IsCompleteScript(out_file)

\* C12 witness: a run whose block list left no unit has ended in sys.exit
\* with nothing generated and nothing written.
C12_Witness ==
  /\ pc = "exit"
  /\ blocks = <<>>
  /\ lines = <<>>
  /\ out_file = <<>>

\* indices of the cells that pass the filters and whose type has no entry in
\* BLOCK_COLOR_MAP
UnmappedCells ==
  {i \in 1..Len(raw_blocks) :
     /\ Survives(variant, depth_slice, raw_blocks[i])
     /\ raw_blocks[i].name \notin DOMAIN BLOCK_COLOR_MAP}

UnmappedNames == {raw_blocks[i].name : i \in UnmappedCells}

\* the end of the parse loop of nbt_to_gcode and the step that follows it
C13_Step ==
  /\ (pc = "parse_loop_done" /\ variant = "nbt") =>
       /\ \A i \in UnmappedCells :
            LET key == CellKey(variant, raw_blocks[i])
            IN  /\ \E k \in 1..Len(blocks) : UnitKey(variant, blocks[k]) = key
                /\ i = SetMin(CellsAt(key)) =>
                     \E k \in 1..Len(blocks) :
                       /\ UnitKey(variant, blocks[k]) = key
                       /\ blocks[k][3] = DEFAULT_LEGO_COLOR
       /\ UnmappedCells # {} => blocks # <<>>
       /\ unmapped = UnmappedNames
       /\ notes = <<>>
       /\ notes' = (IF UnmappedCells # {} THEN <<UnmappedNames>> ELSE <<>>)
       /\ pc' = "parsed"
       /\ blocks' = blocks
  /\ pc # "parse_loop_done" => notes' = notes

\* C13: in nbt_to_gcode a cell that passes the filters and is the first at its
\* key yields a unit of category DEFAULT_LEGO_COLOR when its type has no entry
\* in BLOCK_COLOR_MAP; parsing goes on to return a non-empty unit list; the
\* unmapped collection is the set of such types, each held once however many
\* cells carry it; and the collection is reported once, by the step after the
\* loop over the block list, and by no other step.
C13_UnmappedDefaults == [][C13_Step]_vars

\* C13 witness: the loop has ended on a block list with two unmapped cells of
\* one type at different keys; both are RED units and the collection holds
\* the type once.
C13_Witness ==
  /\ pc = "parse_loop_done"
  /\ variant = "nbt"
  /\ \E i, j \in UnmappedCells :
       /\ i # j
       /\ raw_blocks[i].name = raw_blocks[j].name
       /\ CellKey(variant, raw_blocks[i]) # CellKey(variant, raw_blocks[j])
       /\ \E k \in 1..Len(blocks) :
            blocks[k] = <<raw_blocks[i].pos[1], raw_blocks[i].pos[2],
                          DEFAULT_LEGO_COLOR>>
       /\ \E k \in 1..Len(blocks) :
            blocks[k] = <<raw_blocks[j].pos[1], raw_blocks[j].pos[2],
                          DEFAULT_LEGO_COLOR>>
  /\ Cardinality(unmapped) = 1

\* the scripts s1 and s2 agree line for line outside their timestamp line
SameButTimestamp(s1, s2) ==
  /\ Len(s1) = Len(s2)
  /\ \A i \in 1..Len(s1) :
       s1[i] # s2[i] => s1[i].cmd = "; generated" /\ s2[i].cmd = "; generated"

\* C14: the script of a run agrees, line for line and outside the one
\* timestamp line, with the script generate_gcode yields for the same unit
\* list and configuration at any other time.
C14_SameScriptAtAnyTime ==
  Generated =>
    /\ Cardinality(CmdIdx("; generated")) = 1
    /\ \A ts \in 1..MaxTime :
         SameButTimestamp(lines, generate_gcode(variant, trial, blocks, ts))

\* C14 witness: a script for two units generated at time 2, which differs
\* from the script of time 1 in its timestamp line.
C14_Witness ==
  /\ Generated
  /\ Len(blocks) = 2
  /\ lines[1].p = {2}
  /\ lines # generate_gcode(variant, trial, blocks, 1)

\* C15: for every row index, in both programs, approach_nozzle_z(row) is
\* placement_nozzle_z(row) + APPROACH_CLEARANCE, a positive amount whatever
\* the sign of the vertical pitch; and in the script the line before every
\* push is a Z move that stops APPROACH_CLEARANCE above the Z of the push.
C15_ApproachAbovePlacement ==
  /\ APPROACH_CLEARANCE > 0
  /\ \A v \in Variants : \A row \in 0..MaxRow :
       /\ approach_nozzle_z(v, row) - placement_nozzle_z(v, row)
            = APPROACH_CLEARANCE
       /\ approach_nozzle_z(v, row) > placement_nozzle_z(v, row)
  /\ Generated =>
       /\ Cardinality(PushIdx) = Len(blocks)
       /\ \A j \in PushIdx :
            /\ IsZMove(lines[j - 1])
            /\ Val(lines[j - 1].z) - Val(lines[j].z) = Fmt3(APPROACH_CLEARANCE)
            /\ \E b \in Units :
                 /\ lines[j].z = {Fmt3(placement_nozzle_z(variant,
                                                           Row(variant, b)))}
                 /\ lines[j - 1].z = {Fmt3(approach_nozzle_z(variant,
                                                             Row(variant, b)))}

\* C15 witness: an nbt_to_gcode script (negative pitch) with a unit in row 1,
\* whose push goes below the push of row 0 and whose approach stops above it.
C15_Witness ==
  /\ Generated
  /\ variant = "nbt"
  /\ \E b \in Units : Row(variant, b) = 1
  /\ placement_nozzle_z(variant, 1) < placement_nozzle_z(variant, 0)
  /\ \E j \in PushIdx :
       /\ lines[j].z = {Fmt3(placement_nozzle_z(variant, 1))}
       /\ Val(lines[j - 1].z) > Val(lines[j].z)

\* keys of the cells of the block list that pass the filters
SurvivingKeys ==
  {CellKey(variant, raw_blocks[i]) :
     i \in {j \in 1..Len(raw_blocks) :
              Survives(variant, depth_slice, raw_blocks[j])}}

\* C16: at the end of the parse loop, in both programs, the keys of the units
\* are exactly the keys of the cells of the block list whose type is not in
\* AIR_BLOCKS and, in nbt_to_gcode with MC_DEPTH_SLICE configured, whose depth
\* equals the slice; and there is one unit per such key. A filtered cell thus
\* neither makes a unit nor keeps a later cell of its key from making one.
C16_UnitKeysAreSurvivingKeys ==
  pc = "parse_loop_done" =>
    /\ {UnitKey(variant, blocks[k]) : k \in 1..Len(blocks)} = SurvivingKeys
    /\ Len(blocks) = Cardinality(SurvivingKeys)

\* C16 witness: nbt_to_gcode with MC_DEPTH_SLICE = 0; a non-air cell outside
\* the slice comes first at a key, a cell inside the slice follows at the
\* same key and makes the unit, and another filtered cell's key has no unit.
C16_Witness ==
  /\ pc = "parse_loop_done"
  /\ variant = "nbt"
  /\ depth_slice = {0}
  /\ \E i, j, h \in 1..Len(raw_blocks) :
       /\ i < j
       /\ raw_blocks[i].name \notin AIR_BLOCKS
       /\ raw_blocks[i].pos[3] # 0
       /\ Survives(variant, depth_slice, raw_blocks[j])
       /\ CellKey(variant, raw_blocks[i]) = CellKey(variant, raw_blocks[j])
       /\ blocks = << <<raw_blocks[j].pos[1], raw_blocks[j].pos[2],
                        LookupColor(raw_blocks[j].name)>> >>
       /\ ~Survives(variant, depth_slice, raw_blocks[h])
       /\ CellKey(variant, raw_blocks[h]) # CellKey(variant, raw_blocks[j])

HeaderCmds == {"; generated", "; layer_count", "; Bricks"}

MarkerCmds == {";LAYER_CHANGE", ";Z:", ";HEIGHT:", "; --- Layer"}

PickDwellIdx ==
  {i \in CmdIdx("G4") : lines[i].p = {DISPENSER_DWELL} /\ IsZMove(lines[i - 1])
                        /\ IsStationTravel(lines[i - 2])}

\* the k-th unit block of the script
KthStart(k) ==
  CHOOSE s \in StartIdx : Cardinality({u \in StartIdx : u < s}) = k - 1

\* C17: the script is the header lines, then the setup block (from M73 P0 to
\* the raise to the safe height), then one placement block per unit, the
\* k-th block placing the k-th unit of the sorted sequence, with nothing but
\* layer markers between the blocks, then the teardown block (from M73 P100
\* to M84). For N units it holds N pick dwells and N push moves, and no
\* block starts before the setup raise or ends after the teardown begins.
C17_ScriptLayout ==
  Generated =>
    LET n      == Len(blocks)
        srt    == sorted_blocks(variant, blocks)
        setup0 == SetMin(ProgressIdx)
        raise  == SetMin(MoveIdx)
        td     == SetMax(ProgressIdx)
    IN  /\ setup0 > 1
        /\ \A i \in 1..(setup0 - 1) : lines[i].cmd \in HeaderCmds
        /\ lines[setup0].p = {0}
        /\ setup0 < raise
        /\ \A i \in setup0..raise :
             i \notin StartIdx /\ lines[i].cmd \notin MarkerCmds
        /\ Cardinality(StartIdx) = n
        /\ \A s \in StartIdx : raise < s /\ NextBoundary(s) <= td
        /\ \A k \in 1..n : Places(KthStart(k), srt[k])
        /\ \A b \in Units : Cardinality(BlocksOf(b)) = 1
        /\ \A i \in (raise + 1)..(td - 1) :
             \/ \E s \in StartIdx : i \in Block(s)
             \/ lines[i].cmd \in MarkerCmds
        /\ Cardinality(PickDwellIdx) = n
        /\ Cardinality(PushIdx) = n
        /\ lines[td].p = {100}
        /\ td \notin StartIdx
        /\ Cardinality(CmdIdx("M84")) = 1
        /\ td < Val(CmdIdx("M84"))
        /\ \A i \in td..Len(lines) :
             /\ ~IsXYMove(lines[i])
             /\ lines[i].cmd # "G4"
             /\ ~IsPush(lines[i])

\* C17 witness: a script for three units: three blocks, three pick dwells
\* and three pushes between the setup raise and the teardown.
C17_Witness ==
  /\ Generated
  /\ Len(blocks) = 3
  /\ Cardinality(StartIdx) = 3
  /\ Cardinality(PickDwellIdx) = 3
  /\ Cardinality(PushIdx) = 3
  /\ SetMin(MoveIdx) < SetMin(StartIdx)
  /\ NextBoundary(SetMax(StartIdx)) = SetMax(ProgressIdx)

\* the script nbt_to_gcode.py itself (normal feeds) yields for the unit list
\* and time of this run
NormalScript == generate_gcode(variant, FALSE, blocks, Val(lines[1].p))

\* C18 (as claimed): in a script made through trial_run.py every F word is
\* strictly lower than the F word of the same line of the normal script of
\* the same unit list: in the setup, in every unit block and in the teardown.
C18_TrialFeedsLower ==
  (Generated /\ trial) =>
    /\ Len(lines) = Len(NormalScript)
    /\ \A i \in 1..Len(lines) :
         /\ (lines[i].f # {}) <=> (NormalScript[i].f # {})
         /\ lines[i].f # {} => Val(lines[i].f) < Val(NormalScript[i].f)

\* a line without its F word
NoFeed(l) == [l EXCEPT !.f = {}]

\* C19 (as claimed): a script made through trial_run.py has as many lines as
\* the normal script of the same unit list and every line agrees with the
\* normal one in everything but the value of its F word: command token,
\* coordinates, payload marker and dwell are the same.
C19_TrialDiffersInFeedOnly ==
  (Generated /\ trial) =>
    /\ Len(lines) = Len(NormalScript)
    /\ \A i \in 1..Len(lines) : NoFeed(lines[i]) = NoFeed(NormalScript[i])

\* positions, within the nine motion primitives of a unit, of its moves
UnitMoveSteps == {1, 2, 4, 5, 6, 7, 9}

\* the moves m[o + 1] .. m[o + 9] of one unit carry the feeds of their steps
StepFeeds(m, o) ==
  /\ IsStationTravel(m[o + 1])
  /\ m[o + 1].f = {FEED_TRAVEL(variant, trial)}
  /\ IsZMove(m[o + 2])
  /\ m[o + 2].f = {FEED_APPROACH(variant, trial)}
  /\ m[o + 3].cmd = "G4"
  /\ IsZMove(m[o + 4])
  /\ m[o + 4].f = {FEED_CARRY(variant, trial)}
  /\ IsLoadedTravel(m[o + 5])
  /\ m[o + 5].f = {FEED_CARRY(variant, trial)}
  /\ IsZMove(m[o + 6])
  /\ m[o + 6].f = {FEED_APPROACH(variant, trial)}
  /\ IsZMove(m[o + 7])
  /\ m[o + 7].f = {FEED_PUSH(variant, trial)}
  /\ m[o + 8].cmd = "G4"
  /\ IsZMove(m[o + 9])
  /\ m[o + 9].f = {FEED_TRAVEL(variant, trial)}
  /\ \A j \in UnitMoveSteps : Val(m[o + 7].f) <= Val(m[o + j].f)

\* C20: in both programs the moves of every unit carry, in order, the feeds
\* FEED_TRAVEL (to the station), FEED_APPROACH (descend), FEED_CARRY (rise),
\* FEED_CARRY (travel to the placement X/Y), FEED_APPROACH (approach),
\* FEED_PUSH (push) and FEED_TRAVEL (retract); and the feed of the push is no
\* higher than the feed of any other move of the unit.
C20_StepFeeds ==
  Generated =>
    LET m == Motion
        n == Len(blocks)
    IN  /\ Len(m) = 9 * n + 2
        /\ \A k \in 0..(n - 1) : StepFeeds(m, 9 * k + 1)

\* C20 witness: a gcode_3d script for two units in different rows whose
\* first unit is pushed at FEED_PUSH, below the feeds of its other moves.
C20_Witness ==
  /\ Generated
  /\ variant = "g3d"
  /\ Len(blocks) = 2
  /\ \E a, b \in Units : Row(variant, a) # Row(variant, b)
  /\ Motion[8].f = {FEED_PUSH(variant, trial)}
  /\ \A j \in UnitMoveSteps \ {7} : Val(Motion[8].f) < Val(Motion[1 + j].f)

\* letters of the fields given to the call, in the order X, Y, Z, E, F, ;
GivenFields ==
  Opt("X", args.x) \o Opt("Y", args.y) \o Opt("Z", args.z)
  \o Opt("E", args.e) \o Opt("F", args.feed) \o Opt(";", args.comment)

\* the call has a feed strictly below the approach feed in force
BelowApproach ==
  args.feed # {} /\ Val(args.feed) < FEED_APPROACH(variant, trial)

\* C21: a call of move() yields the token G1 if and only if it is given a
\* payload marker (E) or a feed strictly below the approach feed in force
\* (that of the program, or of trial_run.py); every other call, one at
\* exactly the approach feed or without feed included, yields G0. The words
\* after the token are those of the fields given, in the order X, Y, Z, E,
\* F, comment.
C21_SlowTokenRule ==
  pc = "move_returned" =>
    /\ result.parts[1] \in {"G0", "G1"}
    /\ result.parts[1] = "G1" <=> (args.e # {} \/ BelowApproach)
    /\ result.line.cmd = result.parts[1]
    /\ SubSeq(result.parts, 2, Len(result.parts)) = GivenFields
    /\ result.line.x = {Fmt3(a) : a \in args.x}
    /\ result.line.f = args.feed

\* C21 witness: a call without payload marker at exactly the approach feed,
\* with X, Z, F and a comment, has returned G0 X Z F ; .
C21_Witness ==
  /\ pc = "move_returned"
  /\ args.e = {}
  /\ args.feed = {FEED_APPROACH(variant, trial)}
  /\ result.parts = <<"G0", "X", "Z", "F", ";">>

\* C22: for every value of SAFE_Z the Z of the final raise is
\* min(SAFE_Z + 10, 210): it never exceeds the machine height of 210 mm, it
\* is at least SAFE_Z whenever SAFE_Z is at most 210, and it is the Z word
\* of the line the raise emits.
C22_FinalRaiseClamped ==
  pc = "final_z_returned" =>
    /\ result.final_z = Min(args.safe_z + 100, 2100)
    /\ result.final_z <= 2100
    /\ args.safe_z <= 2100 => result.final_z >= args.safe_z
    /\ result.line.z = {Fmt3(result.final_z)}
    /\ result.line.x = {} /\ result.line.y = {}

\* C22 witness: with SAFE_Z = 205 mm the raise of 10 mm is cut to 210 mm.
C22_Witness ==
  /\ pc = "final_z_returned"
  /\ args.safe_z = 2050
  /\ result.final_z = 2100
  /\ result.line.z = {210000}

\* indices of the moves that change X or Y
XYIdx == {i \in MoveIdx : lines[i].x # {} \/ lines[i].y # {}}

\* the Z commanded when line i is reached: the Z word of the last move
\* before it that has one
CommandedZ(i) ==
  lines[SetMax({j \in MoveIdx : j < i /\ lines[j].z # {}})].z

\* C23: in both programs every move of the script that changes X or Y comes
\* after the setup raise, carries no Z word, and is reached with the
\* commanded Z at SAFE_Z; each unit has two such moves (to the station and to
\* the placement position), whatever the number and order of the units.
C23_TravelAtSafeZ ==
  Generated =>
    /\ Cardinality(XYIdx) = 2 * Len(blocks)
    /\ \A i \in XYIdx :
         /\ SetMin(MoveIdx) < i
         /\ lines[i].z = {}
         /\ CommandedZ(i) = {Fmt3(SAFE_Z(variant))}

\* C23 witness: a script for three units given with a higher row first, with
\* six X/Y travels, the last of them reached from the retract of a push.
C23_Witness ==
  /\ Generated
  /\ Len(blocks) = 3
  /\ Row(variant, blocks[1]) > Row(variant, blocks[2])
  /\ Cardinality(XYIdx) = 6
  /\ \E i \in XYIdx : \E j \in PushIdx :
       j < i /\ CommandedZ(i) = {Fmt3(SAFE_Z(variant))}

\* the categories parse_structure of nbt_to_gcode can attach to a unit
Categories ==
  {BLOCK_COLOR_MAP[n] : n \in DOMAIN BLOCK_COLOR_MAP} \cup {DEFAULT_LEGO_COLOR}

\* C24: every value of BLOCK_COLOR_MAP and DEFAULT_LEGO_COLOR is a key of
\* DISPENSERS, and in nbt_to_gcode every unit parse_structure builds, from
\* mapped and from unmapped types alike, carries one of these categories, so
\* DISPENSERS[color] is defined for every unit handed to generate_gcode.
C24_CategoriesHaveStations ==
  /\ Categories \subseteq DOMAIN DISPENSERS
  /\ variant = "nbt" =>
       \A k \in 1..Len(blocks) :
         /\ blocks[k][3] \in Categories
         /\ blocks[k][3] \in DOMAIN DISPENSERS

\* C24 witness: nbt_to_gcode has generated the script of a unit list that
\* holds a YELLOW unit and a unit of an unmapped type, whose report exists.
C24_Witness ==
  /\ Generated
  /\ variant = "nbt"
  /\ notes # <<>>
  /\ \E a, b \in Units : a[3] = "YELLOW" /\ b[3] = DEFAULT_LEGO_COLOR
  /\ \A b \in Units : \E s \in StartIdx :
       /\ lines[s + 1].x = {Fmt3(DISPENSERS[b[3]].x)}
       /\ Places(s, b)

\* cell i makes a unit: it passes the filters and is the first at its key
MakesUnit(i) ==
  /\ Survives(variant, depth_slice, raw_blocks[i])
  /\ i = SetMin(CellsAt(CellKey(variant, raw_blocks[i])))

\* C25 (as claimed): in nbt_to_gcode every type in the unmapped collection is
\* the type of a cell that makes a unit, and that unit has the default
\* category; a cell behind an earlier cell of its key adds nothing to the
\* collection.
C25_UnmappedOnlyFromUnits ==
  (pc = "parse_loop_done" /\ variant = "nbt") =>
    \A name \in unmapped :
      \E i \in 1..Len(raw_blocks) :
        /\ raw_blocks[i].name = name
        /\ MakesUnit(i)
        /\ \E k \in 1..Len(blocks) :
             /\ UnitKey(variant, blocks[k]) = CellKey(variant, raw_blocks[i])
             /\ blocks[k][3] = DEFAULT_LEGO_COLOR

\* C26 (as claimed): in gcode_3d, for a unit of any row, the Z of the push
\* is below the Z of the approach, which is below SAFE_Z, so both moves go
\* down from the safe height.
C26_PlacementBelowApproachBelowSafeZ ==
  (pc = "place_returned" /\ variant = "g3d") =>
    /\ IsZMove(result[1])
    /\ IsZMove(result[2])
    /\ Val(result[2].z) < Val(result[1].z)
    /\ Val(result[1].z) < Fmt3(SAFE_Z(variant))
    /\ Fmt3(placement_nozzle_z(variant, args.row)) < Fmt3(SAFE_Z(variant))
====
